---- MODULE Spec2Model ----
(***************************************************************************)
(* The screen-state engine of the terminal core (TerminalApi.cpp): cursor  *)
(* positioning, printing, line feed, insert/delete/erase of characters,    *)
(* erase in line, erase in display, over a scrollable text buffer seen     *)
(* through a movable viewport.                                             *)
(*                                                                         *)
(* Coordinates are COORDs of 16-bit signed shorts: [X |-> column,          *)
(* Y |-> row].  A cell is [ch |-> character code, attr |-> attribute], an  *)
(* attribute a record of colours and the id of a hyperlink.                *)
(* The buffer is addressed logically: buffer[0] is the oldest row.         *)
(***************************************************************************)
EXTENDS Integers, Sequences, FiniteSets

VARIABLES
    buffer,             \* _buffer: row -> column -> cell (logical order)
    cursor,             \* _buffer->GetCursor().GetPosition(), absolute
    mutableViewport,    \* _mutableViewport: [Left, Top, Right, Bottom), exclusive
    scrollOffset,       \* _scrollOffset
    currentAttributes,  \* _buffer->GetCurrentAttributes()
    hyperlinks,         \* _buffer: the hyperlinks registered, the next id
    last,               \* the last call: name, arguments, result, what it did
    steps,              \* number of calls made so far
    sgrStack,           \* _sgrStack: the saved attributes, the newest last
    sgrHistory,         \* the attribute calls made so far, in order
    taskbarState,       \* _taskbarState
    taskbarProgress,    \* _taskbarProgress
    pfnTaskbarProgressChanged,  \* _pfnTaskbarProgressChanged holds a callback
    pc                  \* the call in progress: where it stands, and its locals

vars == <<buffer, cursor, mutableViewport, scrollOffset, currentAttributes,
          hyperlinks, last, steps,
          sgrStack, sgrHistory, taskbarState, taskbarProgress,
          pfnTaskbarProgressChanged, pc>>

\* the screen, and the state of the session beside it
screen == <<buffer, cursor, mutableViewport, scrollOffset>>
session == <<hyperlinks, sgrStack, sgrHistory, taskbarState, taskbarProgress,
             pfnTaskbarProgressChanged>>

----------------------------------------------------------------------------
(* Bounds of the model *)

BufferWidth == 5        \* columns of the buffer (and of the viewport)
ViewportHeight == 2     \* rows of the viewport
BufferHeight == 3       \* rows of the buffer, the scrollback included
MaxCount == 2           \* largest count passed to insert / delete
MaxSteps == 2           \* calls per behaviour
TextAttributeCount == 2 \* distinct attributes of the text written at the start


----------------------------------------------------------------------------
(* Machine integers *)

SHORT_MAX == 32767

\* the value a 16-bit signed short holds after an int is stored in it
ToShort(v) == ((v + 32768) % 65536) - 32768

Min(a, b) == IF a < b THEN a ELSE b
Max(a, b) == IF a > b THEN a ELSE b

\* the scrollback: the rows of the buffer beyond the viewport's height
ScrollbackLines == BufferHeight - ViewportHeight

----------------------------------------------------------------------------
(* Cells and rows *)

UNICODE_SPACE == 32

\* A TextAttribute: its colours, and the id of the hyperlink it belongs
\* to, 0 for none
TextAttribute(fg, bg) == [foreground |-> fg, background |-> bg, hyperlinkId |-> 0]

\* TextAttribute::SetHyperlinkId
SetHyperlinkId(attr, id) == [attr EXCEPT !.hyperlinkId = id]

Cell(ch, attr) == [ch |-> ch, attr |-> attr]

\* A row after ROW::Reset(attr): every cell a space carrying attr
ResetRow(width, attr) == [c \in 0 .. width - 1 |-> Cell(UNICODE_SPACE, attr)]

\* TextBuffer::GetSize().Height() and .Width()
BufHeight(buf) == Cardinality(DOMAIN buf)
BufWidth(buf) == Cardinality(DOMAIN buf[0])

\* CharRow::MeasureRight: one past the last non-space character of the row
MeasureRight(row) ==
    LET used == {c \in DOMAIN row : row[c].ch # UNICODE_SPACE}
    IN  IF used = {} THEN 0 ELSE (CHOOSE c \in used : \A d \in used : d <= c) + 1

----------------------------------------------------------------------------
(* Viewport: a rectangle [Left, Right) x [Top, Bottom) of absolute cells *)

FromExclusive(sr) ==
    [Left |-> sr.Left, Top |-> sr.Top, Right |-> sr.Right, Bottom |-> sr.Bottom]

FromDimensions(origin, width, height) ==
    [Left |-> origin.X, Top |-> origin.Y,
     Right |-> origin.X + width, Bottom |-> origin.Y + height]

Left(v) == v.Left
Top(v) == v.Top
RightExclusive(v) == v.Right
BottomExclusive(v) == v.Bottom
RightInclusive(v) == v.Right - 1
BottomInclusive(v) == v.Bottom - 1
Width(v) == v.Right - v.Left
Height(v) == v.Bottom - v.Top
Origin(v) == [X |-> v.Left, Y |-> v.Top]

IsInBounds(v, pos) ==
    /\ pos.X >= Left(v) /\ pos.X < RightExclusive(v)
    /\ pos.Y >= Top(v) /\ pos.Y < BottomExclusive(v)

\* Viewport::Clamp: std::clamp of each coordinate to the inclusive edges
Clamp(v, pos) ==
    [X |-> Max(Left(v), Min(pos.X, RightInclusive(v))),
     Y |-> Max(Top(v), Min(pos.Y, BottomInclusive(v)))]

\* Viewport::ConvertToOrigin / ConvertFromOrigin: absolute <-> relative
ConvertToOrigin(v, pos) ==
    [X |-> ToShort(pos.X - Left(v)), Y |-> ToShort(pos.Y - Top(v))]
ConvertFromOrigin(v, pos) ==
    [X |-> ToShort(pos.X + Left(v)), Y |-> ToShort(pos.Y + Top(v))]

\* Viewport::DetermineWalkDirection: decided by the two origins alone
DetermineWalkDirection(source, target) ==
    [x |-> IF Left(target) < Left(source) THEN "LeftToRight" ELSE "RightToLeft",
     y |-> IF Top(target) < Top(source) THEN "TopToBottom" ELSE "BottomToTop"]

\* Viewport::GetWalkOrigin: the corner a walk in direction dir starts from
GetWalkOrigin(v, dir) ==
    [X |-> IF dir.x = "LeftToRight" THEN Left(v) ELSE RightInclusive(v),
     Y |-> IF dir.y = "TopToBottom" THEN Top(v) ELSE BottomInclusive(v)]

\* Viewport::WalkInBounds: one step of the walk from a position inside
\* the rectangle; ok is FALSE (and pos is left alone) when the step would
\* leave the rectangle.  For a position outside it see WalkFailsFast.
WalkInBounds(v, pos, dir) ==
    LET atEdge == IF dir.x = "LeftToRight" THEN pos.X = RightInclusive(v)
                  ELSE pos.X = Left(v)
        nextX == IF atEdge
                 THEN (IF dir.x = "LeftToRight" THEN Left(v) ELSE RightInclusive(v))
                 ELSE (IF dir.x = "LeftToRight" THEN pos.X + 1 ELSE pos.X - 1)
        nextY == IF ~atEdge THEN pos.Y
                 ELSE IF dir.y = "TopToBottom" THEN pos.Y + 1 ELSE pos.Y - 1
        leaves == atEdge /\ (nextY > BottomInclusive(v) \/ nextY < Top(v))
    IN  IF leaves THEN [ok |-> FALSE, pos |-> pos]
        ELSE [ok |-> TRUE, pos |-> [X |-> nextX, Y |-> nextY]]

----------------------------------------------------------------------------
(* Text buffer *)

GetSize(buf) ==
    [Left |-> 0, Top |-> 0, Right |-> BufWidth(buf), Bottom |-> BufHeight(buf)]

GetCellDataAt(buf, pos) == buf[pos.Y][pos.X]

\* TextBuffer::Write of a one-cell iterator: nothing is written when the
\* target is outside the buffer
WriteCell(buf, data, target) ==
    IF IsInBounds(GetSize(buf), target)
    THEN [buf EXCEPT ![target.Y][target.X] = data]
    ELSE buf

\* TextBuffer::Write of the fill iterator OutputCellIterator(ch, attr,
\* fillLimit): cells are filled from target to the end of its row and on
\* through the following rows, until fillLimit cells are written or the
\* buffer ends; a fillLimit of 0 fills zero cells.  fillLimit is the
\* size_t the iterator receives, as FillLimitOf gives it: the number of
\* cells before a cell of the buffer, below 2^30 with short coordinates,
\* is below every limit that stands for value + 2^bits
WriteFill(buf, ch, attr, fillLimit, target) ==
    LET w == BufWidth(buf)
        first == target.Y * w + target.X
        filled(r, c) == /\ r * w + c >= first
                        /\ (fillLimit.bits > 0 \/ r * w + c - first < fillLimit.value)
    IN  IF ~IsInBounds(GetSize(buf), target) THEN buf
        ELSE [r \in DOMAIN buf |->
                [c \in DOMAIN buf[r] |->
                    IF filled(r, c) THEN Cell(ch, attr) ELSE buf[r][c]]]

\* TextBuffer::GetLastNonSpaceCharacter(viewport): the last non-blank cell
\* within the viewport, searched from its bottom row upwards to its top
\* row; (0, 0) when every row of the viewport is blank
RECURSIVE LastNonSpaceFrom(_, _, _)
LastNonSpaceFrom(buf, y, viewportTop) ==
    LET x == MeasureRight(buf[y]) - 1
    IN  IF x >= 0 THEN [X |-> x, Y |-> y]
        ELSE IF y > viewportTop THEN LastNonSpaceFrom(buf, y - 1, viewportTop)
        ELSE [X |-> 0, Y |-> 0]

GetLastNonSpaceCharacter(buf, v) == LastNonSpaceFrom(buf, BottomInclusive(v), Top(v))

\* TextBuffer::IncrementCircularBuffer: the first row is reset with the
\* current attributes and becomes the last row; every other row moves up
IncrementCircularBuffer(buf, attr) ==
    LET h == BufHeight(buf)
    IN  [r \in DOMAIN buf |->
            IF r < h - 1 THEN buf[r + 1] ELSE ResetRow(BufWidth(buf), attr)]

\* std::rotate(first, middle, last) on the rows: row middle becomes row first
RotateRows(buf, first, middle, end) ==
    [r \in DOMAIN buf |->
        IF r < first \/ r >= end THEN buf[r]
        ELSE IF r < first + (end - middle) THEN buf[middle + (r - first)]
        ELSE buf[first + (r - first - (end - middle))]]

\* TextBuffer::ScrollRows(firstRow, size, delta): moves the block of size
\* rows starting at firstRow by delta rows, rotating the rows it passes
ScrollRows(buf, firstRow, size, delta) ==
    IF delta = 0 THEN buf
    ELSE IF delta < 0
    THEN RotateRows(buf, firstRow + delta, firstRow, firstRow + size)
    ELSE RotateRows(buf, firstRow, firstRow + size, firstRow + size + delta)

----------------------------------------------------------------------------
(* Terminal::SetCursorPosition / GetCursorPosition *)

\* SetCursorPositionPos without the clamp to the viewport
SetCursorPositionPosUnclamped(viewport, x, y) ==
    [X |-> ToShort(Origin(viewport).X + x), Y |-> ToShort(Origin(viewport).Y + y)]

\* SetCursorPosition: the absolute position the cursor is given for the
\* viewport-relative (x, y)
SetCursorPositionPos(viewport, x, y) ==
    LET viewOrigin == Origin(viewport)
        absoluteX == ToShort(viewOrigin.X + x)
        absoluteY == ToShort(viewOrigin.Y + y)
    IN  Clamp(viewport, [X |-> absoluteX, Y |-> absoluteY])

\* GetCursorPosition: the cursor relative to the viewport's origin
GetCursorPositionOf(absoluteCursorPos, viewport) ==
    LET viewOrigin == Origin(viewport)
    IN  [X |-> ToShort(absoluteCursorPos.X - viewOrigin.X),
         Y |-> ToShort(absoluteCursorPos.Y - viewOrigin.Y)]

GetCursorPosition == GetCursorPositionOf(cursor, mutableViewport)

----------------------------------------------------------------------------
(* Terminal::PrintString / CursorLineFeed *)

\* n calls of IncrementCircularBuffer
RECURSIVE CycleBuffer(_, _, _)
CycleBuffer(buf, attr, n) ==
    IF n <= 0 THEN buf ELSE CycleBuffer(IncrementCircularBuffer(buf, attr), attr, n - 1)

\* Terminal::_AdjustCursorPosition: the cursor is put at the proposed
\* position.  For each row the position lies below the buffer, the buffer
\* is cycled and the position taken up one row.  A cursor below the
\* viewport takes the viewport down with it, so that the cursor is on its
\* last row.  A scroll offset other than 0 grows by the rows scrolled and
\* cycled, up to the rows above the viewport.  The scroll event is sent
\* last, when the viewport or the scroll offset changed (notified).
AdjustCursorPosition(buf, viewport, offset, attr, proposedPosition) ==
    LET bufferSize == GetSize(buf)
        newRows == Max(0, proposedPosition.Y - Height(bufferSize) + 1)
        proposedCursorPosition ==
            [X |-> proposedPosition.X, Y |-> proposedPosition.Y - newRows]
        scrollAmount == Max(0, proposedCursorPosition.Y - BottomInclusive(viewport))
        newViewTop == Max(0, proposedCursorPosition.Y - (Height(viewport) - 1))
        updatedViewport == scrollAmount > 0 /\ newViewTop # Top(viewport)
        newViewport == IF updatedViewport
                       THEN FromDimensions([X |-> 0, Y |-> newViewTop],
                                           Width(viewport), Height(viewport))
                       ELSE viewport
        newOffset == IF ~(updatedViewport \/ newRows # 0) THEN offset
                     ELSE IF offset = 0 THEN 0
                     ELSE Max(0, Min(offset + scrollAmount + newRows,
                                     Height(bufferSize) - Height(newViewport)))
    IN  [buffer |-> CycleBuffer(buf, attr, newRows),
         cursor |-> proposedCursorPosition,
         viewport |-> newViewport,
         scrollOffset |-> newOffset,
         increments |-> newRows,
         notified |-> updatedViewport \/ newOffset # offset,
         events |-> [k \in 1 .. newRows |-> "IncrementCircularBuffer"]
                    \o <<"SetCursorPosition">>
                    \o (IF updatedViewport THEN <<"SetViewport">> ELSE <<>>)
                    \o (IF updatedViewport \/ newOffset # offset
                        THEN <<"NotifyScrollEvent">> ELSE <<>>)]

\* Terminal::_WriteBuffer, from its entry, or from the return of the
\* scroll event's handler, to its return or to the next call of the
\* handler.  Each character is written at the cursor with the current
\* attributes and the cursor adjusted to the next cell, which after the
\* last cell of a row lies right of the buffer; a character the buffer
\* does not take at the cursor is tried again at the start of the next
\* row.  stringView is what is left to write; notified tells that the
\* handler is called.
RECURSIVE WriteBuffer(_, _, _, _, _, _)
WriteBuffer(buf, cursorPos, viewport, offset, attr, stringView) ==
    IF stringView = <<>>
    THEN [buffer |-> buf, cursor |-> cursorPos, viewport |-> viewport,
          scrollOffset |-> offset, increments |-> 0, events |-> <<>>,
          notified |-> FALSE, stringView |-> <<>>]
    ELSE LET taken == IsInBounds(GetSize(buf), cursorPos)
             written == WriteCell(buf, Cell(Head(stringView), attr), cursorPos)
             proposedCursorPosition ==
                IF taken
                THEN [X |-> ToShort(cursorPos.X + 1), Y |-> cursorPos.Y]
                ELSE [X |-> 0, Y |-> ToShort(cursorPos.Y + 1)]
             r == AdjustCursorPosition(written, viewport, offset, attr,
                                       proposedCursorPosition)
             left == IF taken THEN Tail(stringView) ELSE stringView
             rest == WriteBuffer(r.buffer, r.cursor, r.viewport, r.scrollOffset,
                                 attr, left)
         IN  IF r.notified
             THEN [buffer |-> r.buffer, cursor |-> r.cursor, viewport |-> r.viewport,
                   scrollOffset |-> r.scrollOffset, increments |-> r.increments,
                   events |-> r.events, notified |-> TRUE, stringView |-> left]
             ELSE [rest EXCEPT !.increments = r.increments + @,
                               !.events = r.events \o @]

\* PrintString: the text is put in the buffer and the cursor moved, up to
\* the return or to the first call of the scroll event's handler
PrintStringResult(buf, cursorPos, viewport, offset, attr, stringView) ==
    WriteBuffer(buf, cursorPos, viewport, offset, attr, stringView)

\* CursorLineFeed: the position proposed for the cursor, one row down and,
\* with a carriage return, in the first column
CursorLineFeedPos(cursorPos, withReturn) ==
    [X |-> IF withReturn THEN 0 ELSE cursorPos.X, Y |-> ToShort(cursorPos.Y + 1)]

\* CursorLineFeed: the state after the cursor is adjusted to that position
CursorLineFeedResult(buf, cursorPos, viewport, offset, attr, withReturn) ==
    AdjustCursorPosition(buf, viewport, offset, attr,
                         CursorLineFeedPos(cursorPos, withReturn))

----------------------------------------------------------------------------
(* Terminal::DeleteCharacter / InsertCharacter *)

\* the do-while loop of both operations: copies the cell at sourcePos to
\* targetPos, then steps both positions, until either walk leaves its
\* rectangle
RECURSIVE CopyWalk(_, _, _, _, _, _)
CopyWalk(buf, source, target, sourcePos, targetPos, walkDirection) ==
    LET data == GetCellDataAt(buf, sourcePos)
        written == WriteCell(buf, data, targetPos)
        s == WalkInBounds(source, sourcePos, walkDirection)
        t == IF s.ok THEN WalkInBounds(target, targetPos, walkDirection)
             ELSE [ok |-> FALSE, pos |-> targetPos]
    IN  IF s.ok /\ t.ok
        THEN CopyWalk(written, source, target, s.pos, t.pos, walkDirection)
        ELSE written

\* CopyRegion walking left to right whatever the rectangles are
CopyRegionLeftToRight(buf, source, target) ==
    LET walkDirection == [x |-> "LeftToRight", y |-> "TopToBottom"]
    IN  CopyWalk(buf, source, target, GetWalkOrigin(source, walkDirection),
                 GetWalkOrigin(target, walkDirection), walkDirection)

\* Viewport::WalkInBounds asserts that the position it is given is inside
\* the rectangle, and ends the process when it is not (FAIL_FAST_IF): so
\* it is for the walk of an empty source, whose walk origin lies outside it
WalkFailsFast(source, target) ==
    ~IsInBounds(source, GetWalkOrigin(source, DetermineWalkDirection(source, target)))

\* the first pass of the do-while loop alone: the cell at the source's walk
\* origin copied to the target's
CopyFirstCell(buf, source, target) ==
    LET walkDirection == DetermineWalkDirection(source, target)
    IN  WriteCell(buf, GetCellDataAt(buf, GetWalkOrigin(source, walkDirection)),
                  GetWalkOrigin(target, walkDirection))

\* the copy of the source rectangle onto the target rectangle, walked in
\* the direction the two rectangles determine
CopyRegion(buf, source, target) ==
    LET walkDirection == DetermineWalkDirection(source, target)
        sourcePos == GetWalkOrigin(source, walkDirection)
        targetPos == GetWalkOrigin(target, walkDirection)
    IN  CopyWalk(buf, source, target, sourcePos, targetPos, walkDirection)

\* DeleteSource starting at the cursor itself
DeleteSourceAtCursor(cursorPos, viewport, dist) ==
    FromDimensions(cursorPos, RightExclusive(viewport) - cursorPos.X, 1)

\* DeleteSource starting one cell short of count cells right of the cursor
DeleteSourceOneShort(cursorPos, viewport, dist) ==
    LET copyFromPos == [X |-> Max(cursorPos.X + dist - 1, cursorPos.X), Y |-> cursorPos.Y]
    IN  FromDimensions(copyFromPos, RightExclusive(viewport) - copyFromPos.X, 1)

\* DeleteCharacter: the source rectangle, from count cells right of the
\* cursor to the viewport's right edge
DeleteSource(cursorPos, viewport, dist) ==
    LET copyFromPos == [X |-> ToShort(cursorPos.X + dist), Y |-> cursorPos.Y]
        sourceWidth == RightExclusive(viewport) - copyFromPos.X
    IN  FromDimensions(copyFromPos, sourceWidth, 1)

\* DeleteCharacter: [threw |-> the call ended in an exception,
\*                   failFast |-> the call ended the process,
\*                   buffer |-> the buffer after the call]
\* SizeTToShort fails above SHORT_MAX, UIntToShort on a negative width or
\* one above SHORT_MAX, and reading the first source cell fails when it is
\* outside the buffer
DeleteCharacterBuffer(buf, cursorPos, viewport, count) ==
    LET dist == count
        source == DeleteSource(cursorPos, viewport, dist)
        target == FromDimensions(cursorPos, Width(source), 1)
        walkDirection == DetermineWalkDirection(source, target)
        sourcePos == GetWalkOrigin(source, walkDirection)
    IN  IF \/ count > SHORT_MAX
           \/ Width(source) < 0 \/ Width(source) > SHORT_MAX
           \/ ~IsInBounds(GetSize(buf), sourcePos)
        THEN [threw |-> TRUE, failFast |-> FALSE, buffer |-> buf]
        ELSE IF WalkFailsFast(source, target)
        THEN [threw |-> FALSE, failFast |-> TRUE,
              buffer |-> CopyFirstCell(buf, source, target)]
        ELSE [threw |-> FALSE, failFast |-> FALSE,
              buffer |-> CopyRegion(buf, source, target)]

\* InsertCharacter: the target rectangle, count cells right of the cursor
\* and as wide as the source
InsertTarget(cursorPos, source, dist) ==
    LET copyToPos == [X |-> ToShort(cursorPos.X + dist), Y |-> cursorPos.Y]
    IN  FromDimensions(copyToPos, Width(source), 1)

\* a signed value v stored in an unsigned integer of the given number of
\* bits and passed on as the fillLimit (a short passed as size_t, 64 bits;
\* an int stored in the DWORD nlength, 32 bits): v itself when it is not
\* negative, and 2^bits + v when it is.  2^bits is beyond the integers
\* at hand, so the value is given by its two terms: the record stands for
\* value + 2^bits, with bits = 0 for no second term
FillLimitOf(v, bits) == [value |-> v, bits |-> IF v < 0 THEN bits ELSE 0]

\* InsertFill writing one space more than count
InsertFillOneMore(buf, attr, dist, cursorPos) ==
    WriteFill(buf, UNICODE_SPACE, attr, FillLimitOf(dist + 1, 64), cursorPos)

\* InsertCharacter: the cells written after the copy, count spaces with
\* the current attributes from the cursor on
InsertFill(buf, attr, dist, cursorPos) ==
    WriteFill(buf, UNICODE_SPACE, attr, FillLimitOf(dist, 64), cursorPos)

InsertCharacterBuffer(buf, cursorPos, viewport, attr, count) ==
    LET dist == count
        sourceWidth == RightExclusive(viewport) - cursorPos.X
        source == FromDimensions(cursorPos, sourceWidth, 1)
        target == InsertTarget(cursorPos, source, dist)
        walkDirection == DetermineWalkDirection(source, target)
        sourcePos == GetWalkOrigin(source, walkDirection)
    IN  IF \/ count > SHORT_MAX \/ sourceWidth < 0 \/ sourceWidth > SHORT_MAX
           \/ ~IsInBounds(GetSize(buf), sourcePos)
        THEN [threw |-> TRUE, failFast |-> FALSE, buffer |-> buf]
        ELSE IF WalkFailsFast(source, target)
        THEN [threw |-> FALSE, failFast |-> TRUE,
              buffer |-> CopyFirstCell(buf, source, target)]
        ELSE [threw |-> FALSE, failFast |-> FALSE,
              buffer |-> InsertFill(CopyRegion(buf, source, target), attr, dist, cursorPos)]

----------------------------------------------------------------------------
(* Terminal::EraseCharacters / EraseInLine *)

EraseCharactersBuffer(buf, absoluteCursorPos, viewport, attr, numChars) ==
    LET distanceToRight == ToShort(RightExclusive(viewport) - absoluteCursorPos.X)
        fillLimit == Min(ToShort(numChars), distanceToRight)
    IN  WriteFill(buf, UNICODE_SPACE, attr, FillLimitOf(fillLimit, 64), absoluteCursorPos)

EraseTypes == {"ToEnd", "FromBeginning", "All", "Scrollback"}

\* EraseInLineBuffer writing the line before the erase type is looked at
EraseInLineBufferWriteFirst(buf, cursorPos, viewport, attr, eraseType) ==
    LET startX == CASE eraseType = "ToEnd" -> cursorPos.X
                    [] eraseType = "FromBeginning" -> 0
                    [] OTHER -> Left(viewport)
        nlength == CASE eraseType = "FromBeginning" -> cursorPos.X - Left(viewport) + 1
                     [] OTHER -> RightExclusive(viewport) - startX
        startPos == [X |-> startX, Y |-> cursorPos.Y]
    IN  [ok |-> eraseType \in {"FromBeginning", "ToEnd", "All"}, wrap |-> FALSE,
         buffer |-> WriteFill(buf, UNICODE_SPACE, attr, FillLimitOf(nlength, 32), startPos)]

\* EraseInLine: [ok |-> the value returned, buffer |-> the buffer after,
\*               wrap |-> the wrap flag the write is told to give the row]
\* nlength is a DWORD: a difference below 0 (a cursor outside the
\* viewport's columns) is stored as a length no buffer reaches
EraseInLineBuffer(buf, cursorPos, viewport, attr, eraseType) ==
    LET startX == CASE eraseType = "FromBeginning" -> 0
                    [] eraseType = "ToEnd" -> cursorPos.X
                    [] eraseType = "All" -> Left(viewport)
                    [] OTHER -> 0
        nlength == CASE eraseType = "FromBeginning" -> cursorPos.X - Left(viewport) + 1
                     [] eraseType = "ToEnd" -> RightExclusive(viewport) - startX
                     [] eraseType = "All" -> RightExclusive(viewport) - startX
                     [] OTHER -> 0
        startPos == [X |-> startX, Y |-> cursorPos.Y]
    IN  IF eraseType \notin {"FromBeginning", "ToEnd", "All"}
        THEN [ok |-> FALSE, wrap |-> FALSE, buffer |-> buf]
        ELSE [ok |-> TRUE, wrap |-> FALSE,
              buffer |-> WriteFill(buf, UNICODE_SPACE, attr, FillLimitOf(nlength, 32), startPos)]

----------------------------------------------------------------------------
(* Terminal::EraseInDisplay *)

\* IncrementLoop with the bound of the loop taken inclusively
RECURSIVE IncrementLoopOneMore(_, _, _, _, _)
IncrementLoopOneMore(buf, attr, sNewTop, i, delta) ==
    IF i <= delta
    THEN IncrementLoopOneMore(IncrementCircularBuffer(buf, attr), attr, sNewTop - 1,
                              i + 1, delta)
    ELSE [buffer |-> buf, sNewTop |-> sNewTop, increments |-> i]

\* EraseInDisplay(All), the for loop: one IncrementCircularBuffer and one
\* row less of sNewTop for each i in [0, delta)
RECURSIVE IncrementLoop(_, _, _, _, _)
IncrementLoop(buf, attr, sNewTop, i, delta) ==
    IF i < delta
    THEN IncrementLoop(IncrementCircularBuffer(buf, attr), attr, sNewTop - 1, i + 1, delta)
    ELSE [buffer |-> buf, sNewTop |-> sNewTop, increments |-> i]

\* ResetLoop resetting no row
ResetLoopNone(buf, attr, i, eraseEnd) == buf

\* EraseInDisplay(Scrollback), the for loop: rows i .. eraseEnd are reset
RECURSIVE ResetLoop(_, _, _, _)
ResetLoop(buf, attr, i, eraseEnd) ==
    IF i <= eraseEnd
    THEN ResetLoop([buf EXCEPT ![i] = ResetRow(BufWidth(buf), attr)], attr, i + 1, eraseEnd)
    ELSE buf

\* EraseInDisplay(All): the top of the new viewport before the buffer is
\* incremented, one row below the last non-space character
NewTopBelow(coordLastChar) == ToShort(coordLastChar.Y + 1)

\* NewWindow with the inclusive right edge where the exclusive one is due
NewWindowInclusive(viewport, newTop) ==
    [Left |-> Left(viewport), Right |-> RightInclusive(viewport),
     Top |-> newTop, Bottom |-> ToShort(newTop + Height(viewport))]

\* newWin: the left and right edges of the viewport, its height, and the
\* top the erase type gives it
NewWindow(viewport, newTop) ==
    [Left |-> Left(viewport), Right |-> RightExclusive(viewport),
     Top |-> newTop, Bottom |-> ToShort(newTop + Height(viewport))]

\* MoveViewport sending the scroll event before anything else is done
MoveViewportNotifyFirst(buf, newWin, relativeCursor, offset, increments) ==
    LET newViewport == FromExclusive(newWin)
    IN  [ok |-> TRUE, moved |-> TRUE, buffer |-> buf, viewport |-> newViewport,
         relativeCursor |-> relativeCursor,
         scrollOffset |-> offset, increments |-> increments,
         events |-> <<"NotifyScrollEvent">>
                    \o [k \in 1 .. increments |-> "IncrementCircularBuffer"]
                    \o <<"SetViewport">>]

\* MoveViewport restoring the cursor with its coordinates exchanged
MoveViewportCursorSwapped(buf, newWin, relativeCursor, offset, increments) ==
    LET newViewport == FromExclusive(newWin)
    IN  [ok |-> TRUE, moved |-> TRUE, buffer |-> buf, viewport |-> newViewport,
         relativeCursor |-> [X |-> relativeCursor.Y, Y |-> relativeCursor.X],
         scrollOffset |-> offset, increments |-> increments,
         events |-> [k \in 1 .. increments |-> "IncrementCircularBuffer"]
                    \o <<"SetViewport", "NotifyScrollEvent">>]

\* EraseInDisplay from the replacement of the viewport to the call of the
\* scroll event's handler: the viewport is replaced and the scroll event
\* is sent, the cursor still where the call found it; relativeCursor is
\* the position the cursor is put back at once the handler has returned
MoveViewport(buf, newWin, relativeCursor, offset, increments) ==
    LET newViewport == FromExclusive(newWin)
    IN  [ok |-> TRUE, moved |-> TRUE, buffer |-> buf, viewport |-> newViewport,
         relativeCursor |-> relativeCursor,
         scrollOffset |-> offset, increments |-> increments,
         events |-> [k \in 1 .. increments |-> "IncrementCircularBuffer"]
                    \o <<"SetViewport", "NotifyScrollEvent">>]

\* the result of a call that returns before the viewport is moved
Unmoved(ok, buf, cursorPos, viewport, offset) ==
    [ok |-> ok, moved |-> FALSE, buffer |-> buf, viewport |-> viewport,
     relativeCursor |-> ConvertToOrigin(viewport, cursorPos),
     scrollOffset |-> offset, increments |-> 0,
     events |-> <<>>]

\* EraseInDisplayAll without the return taken when nothing is to clear
EraseInDisplayAllNoEarlyReturn(buf, cursorPos, viewport, offset, attr) ==
    LET relativeCursor == ConvertToOrigin(viewport, cursorPos)
        coordLastChar == GetLastNonSpaceCharacter(buf, viewport)
        delta == ToShort((NewTopBelow(coordLastChar) + Height(viewport))
                         - Height(GetSize(buf)))
        loop == IncrementLoop(buf, attr, NewTopBelow(coordLastChar), 0, delta)
        newWin == NewWindow(viewport, loop.sNewTop)
    IN  MoveViewport(loop.buffer, newWin, relativeCursor, offset, loop.increments)

\* EraseInDisplay(All): the viewport is moved below the last non-blank
\* cell within it, the circular buffer incremented for each row the new
\* viewport would reach past the buffer; nothing is done when that cell is
\* (0, 0)
EraseInDisplayAll(buf, cursorPos, viewport, offset, attr) ==
    LET relativeCursor == ConvertToOrigin(viewport, cursorPos)
        coordLastChar == GetLastNonSpaceCharacter(buf, viewport)
        delta == ToShort((NewTopBelow(coordLastChar) + Height(viewport))
                         - Height(GetSize(buf)))
        loop == IncrementLoop(buf, attr, NewTopBelow(coordLastChar), 0, delta)
        newWin == NewWindow(viewport, loop.sNewTop)
    IN  IF coordLastChar.X = 0 /\ coordLastChar.Y = 0
        THEN Unmoved(TRUE, buf, cursorPos, viewport, offset)
        ELSE MoveViewport(loop.buffer, newWin, relativeCursor, offset, loop.increments)

\* EraseInDisplayScrollback keeping the scroll offset it found
EraseInDisplayScrollbackKeepOffset(buf, cursorPos, viewport, offset, attr) ==
    LET relativeCursor == ConvertToOrigin(viewport, cursorPos)
        scrollFromPos == ConvertFromOrigin(viewport, [X |-> 0, Y |-> 0])
        scrolled == ScrollRows(buf, scrollFromPos.Y, Height(viewport), -scrollFromPos.Y)
        eraseEnd == GetLastNonSpaceCharacter(scrolled, viewport).Y
        erased == ResetLoop(scrolled, attr, Height(viewport), eraseEnd)
    IN  MoveViewport(erased, NewWindow(viewport, 0), relativeCursor, offset, 0)

EraseInDisplayScrollback(buf, cursorPos, viewport, offset, attr) ==
    LET relativeCursor == ConvertToOrigin(viewport, cursorPos)
        scrollFromPos == ConvertFromOrigin(viewport, [X |-> 0, Y |-> 0])
        scrolled == ScrollRows(buf, scrollFromPos.Y, Height(viewport), -scrollFromPos.Y)
        eraseStart == Height(viewport)
        eraseEnd == GetLastNonSpaceCharacter(scrolled, viewport).Y
        erased == ResetLoop(scrolled, attr, eraseStart, eraseEnd)
        newWin == NewWindow(viewport, 0)
        moved == MoveViewport(erased, newWin, relativeCursor, 0, 0)
    IN  [moved EXCEPT !.events = <<"ScrollRows">>
                                 \o [k \in 1 .. eraseEnd - eraseStart + 1 |-> "Reset"]
                                 \o @]

\* EraseInDisplay up to the return or, when the viewport is replaced, up to
\* the call of the scroll event's handler:
\* [ok |-> the value returned, moved |-> the viewport was replaced,
\*  buffer, viewport, scrollOffset |-> the state at that point,
\*  relativeCursor |-> the local of that name,
\*  increments |-> calls of IncrementCircularBuffer, events |-> in order]
EraseInDisplayResult(buf, cursorPos, viewport, offset, attr, eraseType) ==
    IF eraseType = "All"
    THEN EraseInDisplayAll(buf, cursorPos, viewport, offset, attr)
    ELSE IF eraseType = "Scrollback"
    THEN EraseInDisplayScrollback(buf, cursorPos, viewport, offset, attr)
    ELSE Unmoved(FALSE, buf, cursorPos, viewport, offset)

----------------------------------------------------------------------------
(* Terminal::AddHyperlink / EndHyperlink *)

\* the params of a hyperlink given no id of its own
NoParams == ""

\* the hyperlink state of a buffer in which no hyperlink was started
NoHyperlinks ==
    [currentHyperlinkId |-> 1, hyperlinkMap |-> {}, hyperlinkCustomIdMap |-> {}]

\* the id after id in a 16-bit unsigned counter that passes over 0
NextHyperlinkId(id) == IF (id + 1) % 65536 = 0 THEN 1 ELSE (id + 1) % 65536

\* TextBuffer::GetHyperlinkId: a hyperlink without params gets the next
\* id; one with params gets the id its params and uri were given before,
\* or else the next id, which is then kept for them
GetHyperlinkId(links, uri, params) ==
    LET known == {h \in links.hyperlinkCustomIdMap : h.uri = uri /\ h.params = params}
        fresh == params = NoParams \/ known = {}
        numericId == IF fresh THEN links.currentHyperlinkId
                     ELSE (CHOOSE h \in known : TRUE).id
    IN  [id |-> numericId,
         hyperlinks |->
            [links EXCEPT
                !.currentHyperlinkId = IF fresh THEN NextHyperlinkId(@) ELSE @,
                !.hyperlinkCustomIdMap =
                    IF params # NoParams /\ known = {}
                    THEN @ \cup {[uri |-> uri, params |-> params, id |-> numericId]}
                    ELSE @]]

\* TextBuffer::AddHyperlinkToMap: the uri is kept under the id
AddHyperlinkToMap(links, uri, id) ==
    [links EXCEPT !.hyperlinkMap =
        {h \in @ : h.id # id} \cup {[id |-> id, uri |-> uri]}]

\* AddHyperlink: [attributes |-> the attributes made current,
\*                hyperlinks |-> the hyperlinks of the buffer]
AddHyperlinkResult(links, current, uri, params) ==
    LET got == GetHyperlinkId(links, uri, params)
    IN  [attributes |-> SetHyperlinkId(current, got.id),
         hyperlinks |-> AddHyperlinkToMap(got.hyperlinks, uri, got.id)]

\* EndHyperlink: the attributes made current
EndHyperlinkAttributes(current) == SetHyperlinkId(current, 0)

----------------------------------------------------------------------------
(* Terminal::PushGraphicsRendition / PopGraphicsRendition *)

\* the fields of a TextAttribute a push can select
SgrFields == {"foreground", "background"}

\* SgrStack::Push: the attributes are saved with the fields the options
\* select; no option selects them all
SgrPush(stack, attributes, options) ==
    Append(stack, [TextAttributes |-> attributes,
                   ValidParts |-> IF options = {} THEN {"All"} ELSE options])

\* the saved fields laid over the current attributes
CombineWithCurrentAttributes(current, saved, validParts) ==
    [f \in DOMAIN current |-> IF f \in validParts THEN saved[f] ELSE current[f]]

\* SgrStack::Pop: the newest entry is removed and merged into current; an
\* empty stack gives current back
SgrPop(stack, current) ==
    IF stack = <<>> THEN [stack |-> stack, attributes |-> current]
    ELSE LET restoreMe == stack[Len(stack)]
         IN  [stack |-> SubSeq(stack, 1, Len(stack) - 1),
              attributes |-> IF "All" \in restoreMe.ValidParts
                             THEN restoreMe.TextAttributes
                             ELSE CombineWithCurrentAttributes(
                                      current, restoreMe.TextAttributes,
                                      restoreMe.ValidParts)]

\* PushGraphicsRendition: the stack after the current attributes are saved
PushGraphicsRenditionStack(stack, current, options) == SgrPush(stack, current, options)

\* PopGraphicsRenditionResult without the write of the current attributes
PopGraphicsRenditionResultUnset(stack, current) ==
    [stack |-> SgrPop(stack, current).stack, attributes |-> current]

\* PopGraphicsRenditionResult giving the default attributes when nothing
\* is saved
PopGraphicsRenditionResultDefault(stack, current) ==
    IF stack = <<>> THEN [stack |-> stack, attributes |-> TextAttribute(0, 0)]
    ELSE SgrPop(stack, current)

\* PopGraphicsRendition: [stack |-> the stack after the pop,
\*                        attributes |-> the attributes made current]
PopGraphicsRenditionResult(stack, current) ==
    LET popped == SgrPop(stack, current)
    IN  [stack |-> popped.stack, attributes |-> popped.attributes]

----------------------------------------------------------------------------
(* Terminal::SetTaskbarProgress *)

TaskbarStates == {"Clear", "Set", "Error", "Indeterminate", "Paused"}

\* the 'minimum' progress an error or a pause is shown with
TaskbarMinProgress == 10

\* TaskbarProgressAfter giving the minimum to every error or pause that
\* comes without a progress
TaskbarProgressAfterAlwaysMin(state, progress, taskbarProgressBefore) ==
    CASE state = "Clear" -> 0
      [] state = "Set" -> progress
      [] state = "Indeterminate" -> taskbarProgressBefore
      [] state \in {"Error", "Paused"} ->
            IF progress = 0 THEN TaskbarMinProgress ELSE progress
      [] OTHER -> taskbarProgressBefore

\* TaskbarProgressAfter leaving the progress alone whenever an error or a
\* pause comes without a progress
TaskbarProgressAfterNoMin(state, progress, taskbarProgressBefore) ==
    CASE state = "Clear" -> 0
      [] state = "Set" -> progress
      [] state = "Indeterminate" -> taskbarProgressBefore
      [] state \in {"Error", "Paused"} ->
            IF progress = 0 THEN taskbarProgressBefore ELSE progress
      [] OTHER -> taskbarProgressBefore

\* SetTaskbarProgress, the switch: _taskbarProgress after the call
TaskbarProgressAfter(state, progress, taskbarProgressBefore) ==
    CASE state = "Clear" -> 0
      [] state = "Set" -> progress
      [] state = "Indeterminate" -> taskbarProgressBefore
      [] state \in {"Error", "Paused"} ->
            IF progress = 0
            THEN (IF taskbarProgressBefore = 0 THEN TaskbarMinProgress
                  ELSE taskbarProgressBefore)
            ELSE progress
      [] OTHER -> taskbarProgressBefore

----------------------------------------------------------------------------
(* The state machine *)

\* the record of a call: a and b are its arguments, ret what it returns,
\* from the viewport's top row and the scroll offset it started with
Call(op, a, b, ret, increments, events) ==
    [op |-> op, a |-> a, b |-> b, ret |-> ret, increments |-> increments,
     events |-> events,
     from |-> [top |-> Top(mutableViewport), offset |-> scrollOffset]]

\* no call is in progress
Idle == [at |-> "idle", op |-> "", relativeCursor |-> [X |-> 0, Y |-> 0],
         stringView |-> <<>>]

\* the process was ended by a failed assertion: no call is made again
FailFast == [Idle EXCEPT !.at = "FailFast"]

\* the call op stands in _NotifyScrollEvent: the handler of the scroll
\* event runs
InScrollHandler(op) == pc.at = "NotifyScrollEvent" /\ pc.op = op

\* the terminal is called from one thread and a call is not re-entered:
\* a call starts when none is in progress
CanCall == pc.at = "idle"

\* 'a', the character of the first cell written
FirstLetter == UNICODE_SPACE + 65

\* Initial text: cell (r, c) of a written row holds a character and an
\* attribute of its own
TextCell(r, c) == Cell(FirstLetter + r * BufferWidth + c,
                       TextAttribute((r + c) % TextAttributeCount, 0))
TextRow(r) == [c \in 0 .. BufferWidth - 1 |-> TextCell(r, c)]

\* the attributes of the cells never written, and those of the pen: two
\* attributes no written cell carries
DefaultAttributes == TextAttribute(TextAttributeCount, 0)
PenAttributes == TextAttribute(TextAttributeCount + 1, 0)

\* A buffer as the terminal leaves it with the viewport at row top: each
\* row down to the viewport's last row is written or blank, and the rows
\* below the viewport are blank
InitBuffers(top) ==
    {[r \in 0 .. BufferHeight - 1 |->
        IF r \in written THEN TextRow(r) ELSE ResetRow(BufferWidth, DefaultAttributes)]
     : written \in SUBSET (0 .. top + ViewportHeight - 1)}

\* the session as it is created: no hyperlink, nothing saved, the taskbar
\* cleared, no callback registered, no call in progress
SessionInit ==
    /\ hyperlinks = NoHyperlinks
    /\ sgrStack = <<>>
    /\ sgrHistory = <<>>
    /\ taskbarState = "Clear"
    /\ taskbarProgress = 0
    /\ pfnTaskbarProgressChanged = FALSE
    /\ pc = Idle

\* the columns the cursor starts in: the first and the last
CursorColumns == {0, BufferWidth - 1}

Init ==
    \E top \in 0 .. ScrollbackLines :
        /\ SessionInit
        /\ buffer \in InitBuffers(top)
        /\ mutableViewport = FromDimensions([X |-> 0, Y |-> top], BufferWidth, ViewportHeight)
        /\ cursor \in {[X |-> x, Y |-> y] : x \in CursorColumns,
                                            y \in top .. top + ViewportHeight - 1}
        /\ scrollOffset \in 0 .. top
        /\ currentAttributes = PenAttributes
        /\ last = [op |-> "Create", a |-> 0, b |-> 0, ret |-> TRUE, increments |-> 0,
                   events |-> <<>>, from |-> [top |-> top, offset |-> scrollOffset]]
        /\ steps = 0

\* the arguments the calls are made with
XInputs == {-1, 2, BufferWidth}
YInputs == {-1, 1, SHORT_MAX}
Counts == 0 .. MaxCount
\* for EraseCharacters also a count that does not fit a short
NumCharsInputs == Counts \cup {2 * (SHORT_MAX + 1) + 1}

\* the characters 'x' and 'y', which the initial text does not hold
PrintedLetter == FirstLetter + 23

\* the strings printed
StringInputs == {<<PrintedLetter>>, <<PrintedLetter, PrintedLetter + 1>>}

\* PrintString, from its entry to its return or to the first call of the
\* scroll event's handler (in _WriteBuffer, through _AdjustCursorPosition)
PrintString(stringView) ==
    LET r == PrintStringResult(buffer, cursor, mutableViewport, scrollOffset,
                               currentAttributes, stringView)
    IN  /\ CanCall
        /\ steps < MaxSteps
        /\ buffer' = r.buffer
        /\ cursor' = r.cursor
        /\ mutableViewport' = r.viewport
        /\ scrollOffset' = r.scrollOffset
        /\ pc' = IF r.notified
                 THEN [Idle EXCEPT !.at = "NotifyScrollEvent", !.op = "PrintString",
                                   !.stringView = r.stringView]
                 ELSE Idle
        /\ last' = Call("PrintString", stringView, 0, TRUE, r.increments, r.events)
        /\ steps' = steps + 1
        /\ UNCHANGED <<currentAttributes, session>>

\* PrintString, from the return of the scroll event's handler: what is
\* left of the text is written, up to the return or to the next call of
\* the handler
PrintStringReturn ==
    LET r == WriteBuffer(buffer, cursor, mutableViewport, scrollOffset,
                         currentAttributes, pc.stringView)
    IN  /\ InScrollHandler("PrintString")
        /\ buffer' = r.buffer
        /\ cursor' = r.cursor
        /\ mutableViewport' = r.viewport
        /\ scrollOffset' = r.scrollOffset
        /\ pc' = IF r.notified THEN [pc EXCEPT !.stringView = r.stringView] ELSE Idle
        /\ last' = [last EXCEPT !.increments = @ + r.increments,
                                !.events = @ \o r.events]
        /\ UNCHANGED <<currentAttributes, steps, session>>

\* CursorLineFeed, from its entry to its return or to the call of the
\* scroll event's handler (in _AdjustCursorPosition, line 77)
CursorLineFeed(withReturn) ==
    LET r == CursorLineFeedResult(buffer, cursor, mutableViewport, scrollOffset,
                                  currentAttributes, withReturn)
    IN  /\ CanCall
        /\ steps < MaxSteps
        /\ buffer' = r.buffer
        /\ cursor' = r.cursor
        /\ mutableViewport' = r.viewport
        /\ scrollOffset' = r.scrollOffset
        /\ pc' = IF r.notified
                 THEN [Idle EXCEPT !.at = "NotifyScrollEvent", !.op = "CursorLineFeed"]
                 ELSE Idle
        /\ last' = Call("CursorLineFeed", withReturn, 0, TRUE, r.increments, r.events)
        /\ steps' = steps + 1
        /\ UNCHANGED <<currentAttributes, session>>

\* CursorLineFeed, from the return of the scroll event's handler to its
\* own return (line 78)
CursorLineFeedReturn ==
    /\ InScrollHandler("CursorLineFeed")
    /\ pc' = Idle
    /\ UNCHANGED <<screen, currentAttributes, last, steps, session>>

SetCursorPosition(x, y) ==
    /\ CanCall
    /\ steps < MaxSteps
    /\ cursor' = SetCursorPositionPos(mutableViewport, x, y)
    /\ last' = Call("SetCursorPosition", x, y, TRUE, 0, <<>>)
    /\ steps' = steps + 1
    /\ UNCHANGED <<buffer, mutableViewport, scrollOffset, currentAttributes, session, pc>>

DeleteCharacter(count) ==
    LET r == DeleteCharacterBuffer(buffer, cursor, mutableViewport, count)
    IN  /\ CanCall
        /\ steps < MaxSteps
        /\ buffer' = r.buffer
        /\ pc' = IF r.failFast THEN FailFast ELSE Idle
        /\ last' = Call("DeleteCharacter", count, 0, ~r.threw /\ ~r.failFast, 0, <<>>)
        /\ steps' = steps + 1
        /\ UNCHANGED <<cursor, mutableViewport, scrollOffset, currentAttributes, session>>

InsertCharacter(count) ==
    LET r == InsertCharacterBuffer(buffer, cursor, mutableViewport, currentAttributes, count)
    IN  /\ CanCall
        /\ steps < MaxSteps
        /\ buffer' = r.buffer
        /\ pc' = IF r.failFast THEN FailFast ELSE Idle
        /\ last' = Call("InsertCharacter", count, 0, ~r.threw /\ ~r.failFast, 0, <<>>)
        /\ steps' = steps + 1
        /\ UNCHANGED <<cursor, mutableViewport, scrollOffset, currentAttributes, session>>

EraseCharacters(numChars) ==
    /\ CanCall
    /\ steps < MaxSteps
    /\ buffer' = EraseCharactersBuffer(buffer, cursor, mutableViewport,
                                       currentAttributes, numChars)
    /\ last' = Call("EraseCharacters", numChars, 0, TRUE, 0, <<>>)
    /\ steps' = steps + 1
    /\ UNCHANGED <<cursor, mutableViewport, scrollOffset, currentAttributes, session, pc>>

EraseInLine(eraseType) ==
    LET r == EraseInLineBuffer(buffer, cursor, mutableViewport, currentAttributes, eraseType)
    IN  /\ CanCall
        /\ steps < MaxSteps
        /\ buffer' = r.buffer
        /\ last' = Call("EraseInLine", eraseType, r.wrap, r.ok, 0, <<>>)
        /\ steps' = steps + 1
        /\ UNCHANGED <<cursor, mutableViewport, scrollOffset, currentAttributes, session, pc>>

\* EraseInDisplay, from its entry to its return or, when the viewport is
\* replaced, to the call of the scroll event's handler (line 294), which
\* runs with the new viewport and the cursor not yet put back
EraseInDisplay(eraseType) ==
    LET r == EraseInDisplayResult(buffer, cursor, mutableViewport, scrollOffset,
                                  currentAttributes, eraseType)
    IN  /\ CanCall
        /\ steps < MaxSteps
        /\ buffer' = r.buffer
        /\ mutableViewport' = r.viewport
        /\ scrollOffset' = r.scrollOffset
        /\ pc' = IF r.moved
                 THEN [Idle EXCEPT !.at = "NotifyScrollEvent", !.op = "EraseInDisplay",
                                   !.relativeCursor = r.relativeCursor]
                 ELSE Idle
        /\ last' = [Call("EraseInDisplay", eraseType, r.moved, r.ok, r.increments,
                         r.events)
                    EXCEPT !.from = [top |-> Top(mutableViewport),
                                     offset |-> scrollOffset,
                                     cursor |-> GetCursorPosition]]
        /\ steps' = steps + 1
        /\ UNCHANGED <<cursor, currentAttributes, session>>

\* EraseInDisplay, from the return of the scroll event's handler to its
\* own return: the cursor is put back at its relative position
EraseInDisplayReturn ==
    /\ InScrollHandler("EraseInDisplay")
    /\ cursor' = SetCursorPositionPos(mutableViewport, pc.relativeCursor.X,
                                      pc.relativeCursor.Y)
    /\ pc' = Idle
    /\ last' = [last EXCEPT !.events = Append(@, "SetCursorPosition")]
    /\ UNCHANGED <<buffer, mutableViewport, scrollOffset, currentAttributes, steps,
                   session>>

\* the record of an attribute call in the history: the attributes that
\* were current when it was made, and its argument
SgrCall(op, options) ==
    [op |-> op, attributes |-> currentAttributes, options |-> options]

\* the hyperlinks started: one without params, one with
HyperlinkInputs == {[uri |-> "u", params |-> NoParams], [uri |-> "u", params |-> "p"]}

AddHyperlink(uri, params) ==
    LET r == AddHyperlinkResult(hyperlinks, currentAttributes, uri, params)
    IN  /\ CanCall
        /\ currentAttributes' = r.attributes
        /\ hyperlinks' = r.hyperlinks
        /\ sgrHistory' = Append(sgrHistory, SgrCall("AddHyperlink", {}))
        /\ last' = Call("AddHyperlink", uri, params, TRUE, 0, <<>>)
        /\ steps' = steps + 1
        /\ UNCHANGED <<screen, sgrStack, taskbarState, taskbarProgress,
                       pfnTaskbarProgressChanged, pc>>

EndHyperlink ==
    /\ CanCall
    /\ currentAttributes' = EndHyperlinkAttributes(currentAttributes)
    /\ sgrHistory' = Append(sgrHistory, SgrCall("EndHyperlink", {}))
    /\ last' = Call("EndHyperlink", 0, 0, TRUE, 0, <<>>)
    /\ steps' = steps + 1
    /\ UNCHANGED <<screen, hyperlinks, sgrStack, taskbarState, taskbarProgress,
                   pfnTaskbarProgressChanged, pc>>

\* IsVtInputEnabled: a call this terminal does not support, it ends the
\* process
IsVtInputEnabled ==
    /\ CanCall
    /\ steps < MaxSteps
    /\ pc' = FailFast
    /\ last' = Call("IsVtInputEnabled", 0, 0, FALSE, 0, <<>>)
    /\ steps' = steps + 1
    /\ UNCHANGED <<screen, currentAttributes, session>>

\* the calls that edit the screen and place the cursor
EditNext ==
    \/ \E x \in XInputs, y \in YInputs : SetCursorPosition(x, y)
    \/ \E count \in Counts : DeleteCharacter(count)
    \/ \E count \in Counts : InsertCharacter(count)
    \/ \E numChars \in NumCharsInputs : EraseCharacters(numChars)
    \/ \E eraseType \in EraseTypes : EraseInLine(eraseType)
    \/ \E eraseType \in EraseTypes : EraseInDisplay(eraseType)
    \/ EraseInDisplayReturn

\* the calls that print, and those that start and end a hyperlink
PrintNext ==
    \/ \E stringView \in StringInputs : PrintString(stringView)
    \/ PrintStringReturn
    \/ \E withReturn \in BOOLEAN : CursorLineFeed(withReturn)
    \/ CursorLineFeedReturn
    \/ steps < MaxSteps /\ \E h \in HyperlinkInputs : AddHyperlink(h.uri, h.params)
    \/ steps < MaxSteps /\ EndHyperlink

Next == EditNext \/ PrintNext \/ IsVtInputEnabled

Spec == Init /\ [][Next]_vars

\* the terminal under the editing calls alone
EditSpec == Init /\ [][EditNext]_vars

----------------------------------------------------------------------------
(* The attribute calls, on a screen that is left alone *)

MaxSgrCalls == 5        \* attribute calls per behaviour

\* a blank screen with the viewport at the buffer's top
BlankScreen ==
    /\ buffer = [r \in 0 .. BufferHeight - 1 |-> ResetRow(BufferWidth, DefaultAttributes)]
    /\ mutableViewport = FromDimensions([X |-> 0, Y |-> 0], BufferWidth, ViewportHeight)
    /\ cursor = [X |-> 0, Y |-> 0]
    /\ scrollOffset = 0
    /\ last = [op |-> "Create", a |-> 0, b |-> 0, ret |-> TRUE, increments |-> 0,
               events |-> <<>>, from |-> [top |-> 0, offset |-> 0]]
    /\ steps = 0

\* the attributes and the options the calls are made with
AttributeInputs == {TextAttribute(fg, bg) : fg \in 0 .. 1, bg \in 0 .. 1}
OptionInputs == SUBSET SgrFields

SgrInit ==
    /\ BlankScreen
    /\ SessionInit
    /\ currentAttributes = TextAttribute(0, 0)

SetTextAttributes(attrs) ==
    /\ CanCall
    /\ steps < MaxSgrCalls
    /\ currentAttributes' = attrs
    /\ sgrHistory' = Append(sgrHistory, SgrCall("SetTextAttributes", {}))
    /\ last' = Call("SetTextAttributes", attrs, 0, TRUE, 0, <<>>)
    /\ steps' = steps + 1
    /\ UNCHANGED <<screen, hyperlinks, sgrStack, taskbarState, taskbarProgress,
                   pfnTaskbarProgressChanged, pc>>

PushGraphicsRendition(options) ==
    /\ CanCall
    /\ steps < MaxSgrCalls
    /\ sgrStack' = PushGraphicsRenditionStack(sgrStack, currentAttributes, options)
    /\ sgrHistory' = Append(sgrHistory, SgrCall("PushGraphicsRendition", options))
    /\ last' = Call("PushGraphicsRendition", options, 0, TRUE, 0, <<>>)
    /\ steps' = steps + 1
    /\ UNCHANGED <<screen, currentAttributes, hyperlinks, taskbarState,
                   taskbarProgress, pfnTaskbarProgressChanged, pc>>

PopGraphicsRendition ==
    LET r == PopGraphicsRenditionResult(sgrStack, currentAttributes)
    IN  /\ CanCall
        /\ steps < MaxSgrCalls
        /\ sgrStack' = r.stack
        /\ currentAttributes' = r.attributes
        /\ sgrHistory' = Append(sgrHistory, SgrCall("PopGraphicsRendition", {}))
        /\ last' = Call("PopGraphicsRendition", 0, 0, TRUE, 0, <<>>)
        /\ steps' = steps + 1
        /\ UNCHANGED <<screen, hyperlinks, taskbarState, taskbarProgress,
                       pfnTaskbarProgressChanged, pc>>

SgrNext ==
    \/ \E attrs \in AttributeInputs : SetTextAttributes(attrs)
    \/ \E options \in OptionInputs : PushGraphicsRendition(options)
    \/ PopGraphicsRendition
    \/ steps < MaxSgrCalls /\ \E h \in HyperlinkInputs : AddHyperlink(h.uri, h.params)
    \/ steps < MaxSgrCalls /\ EndHyperlink

SgrSpec == SgrInit /\ [][SgrNext]_vars

----------------------------------------------------------------------------
(* The taskbar calls, on a screen that is left alone *)

\* the progress values the calls are made with
ProgressInputs == {0, 7, 42, 100}

TaskbarInit ==
    /\ BlankScreen
    /\ SessionInit
    /\ currentAttributes = PenAttributes

\* the registration of the taskbar callback: pfn is TRUE for a callback,
\* FALSE for an empty one
TaskbarProgressChangedCallback(pfn) ==
    /\ CanCall
    /\ pfnTaskbarProgressChanged' = pfn
    /\ last' = [op |-> "TaskbarProgressChangedCallback", a |-> pfn, b |-> 0,
                ret |-> TRUE, increments |-> 0, events |-> <<>>,
                from |-> [state |-> taskbarState, progress |-> taskbarProgress]]
    /\ UNCHANGED <<screen, currentAttributes, hyperlinks, steps, sgrStack,
                   sgrHistory, taskbarState, taskbarProgress, pc>>

\* SetTaskbarProgress, its end: the callback is called when one is
\* registered
TaskbarNotification(pfn) == IF pfn THEN <<"TaskbarProgressChanged">> ELSE <<>>

SetTaskbarProgress(state, progress) ==
    /\ CanCall
    /\ taskbarState' = state
    /\ taskbarProgress' = TaskbarProgressAfter(state, progress, taskbarProgress)
    /\ last' = [op |-> "SetTaskbarProgress", a |-> state, b |-> progress, ret |-> TRUE,
                increments |-> 0,
                events |-> TaskbarNotification(pfnTaskbarProgressChanged),
                from |-> [state |-> taskbarState, progress |-> taskbarProgress]]
    /\ UNCHANGED <<screen, currentAttributes, hyperlinks, steps, sgrStack,
                   sgrHistory, pfnTaskbarProgressChanged, pc>>

TaskbarNext ==
    \/ \E pfn \in BOOLEAN : TaskbarProgressChangedCallback(pfn)
    \/ \E state \in TaskbarStates, progress \in ProgressInputs :
            SetTaskbarProgress(state, progress)

TaskbarSpec == TaskbarInit /\ [][TaskbarNext]_vars

----------------------------------------------------------------------------
(* EraseInLine under a viewport that need not start at column 0 *)

MaxLeft == 1            \* largest left edge of the viewport

\* a viewport is a rectangle anywhere over the buffer: here its left edge
\* is any column up to MaxLeft and its right edge the buffer's
EraseInLineInit ==
    \E top \in 0 .. ScrollbackLines, left \in 0 .. MaxLeft :
        /\ SessionInit
        /\ buffer \in InitBuffers(top)
        /\ mutableViewport = FromDimensions([X |-> left, Y |-> top],
                                            BufferWidth - left, ViewportHeight)
        /\ cursor \in {[X |-> x, Y |-> y] : x \in left .. BufferWidth - 1,
                                            y \in top .. top + ViewportHeight - 1}
        /\ scrollOffset = 0
        /\ currentAttributes = PenAttributes
        /\ last = [op |-> "Create", a |-> 0, b |-> 0, ret |-> TRUE, increments |-> 0,
                   events |-> <<>>, from |-> [top |-> top, offset |-> 0]]
        /\ steps = 0

EraseInLineNext == \E eraseType \in EraseTypes : EraseInLine(eraseType)

EraseInLineSpec == EraseInLineInit /\ [][EraseInLineNext]_vars

----------------------------------------------------------------------------
(* Properties *)

ClampTo(v, lo, hi) == Max(lo, Min(v, hi))

IsBlankRow(row) == \A c \in DOMAIN row : row[c].ch = UNICODE_SPACE

\* the cells between the cursor and the viewport's right edge
DistanceToRight(cursorPos, viewport) == RightExclusive(viewport) - cursorPos.X

\* C1: SetCursorPosition(x, y) followed by GetCursorPosition() returns a
\* coordinate inside [0, width) x [0, height) that equals (x, y) clamped to
\* that range, for every viewport and every (x, y).
C1_SetThenGetIsClampedInput ==
    last.op = "SetCursorPosition" =>
        LET got == GetCursorPosition
            w == Width(mutableViewport)
            h == Height(mutableViewport)
        IN  /\ got.X \in 0 .. w - 1
            /\ got.Y \in 0 .. h - 1
            /\ got.X = ClampTo(last.a, 0, w - 1)
            /\ got.Y = ClampTo(last.b, 0, h - 1)

\* C2: in every state reached from an initial state with the cursor
\* inside the viewport by any sequence of SetCursorPosition,
\* InsertCharacter, DeleteCharacter, EraseCharacters, EraseInLine and
\* EraseInDisplay calls, the cursor's absolute position is inside the
\* buffer and the position GetCursorPosition() would return is inside the
\* viewport: neither coordinate negative, X below the width, Y below the
\* height.
C2_CursorInsideBufferAndViewport ==
    CanCall =>
        /\ IsInBounds(GetSize(buffer), cursor)
        /\ GetCursorPosition.X \in 0 .. Width(mutableViewport) - 1
        /\ GetCursorPosition.Y \in 0 .. Height(mutableViewport) - 1

\* C2 witness: a second call, an erase in display, has moved the viewport
\* and has returned with the cursor put back into it.
C2_Witness ==
    /\ steps = 2 /\ CanCall
    /\ last.op = "EraseInDisplay" /\ last.b
    /\ Top(mutableViewport) # last.from.top
    /\ IsInBounds(mutableViewport, cursor)

\* what C3 says of InsertCharacter(n) from the row old to the row new
InsertShifted(old, new, cursorPos, viewport, attr, n) ==
    LET c == cursorPos.X
        right == RightExclusive(viewport)
    IN  /\ \A i \in 0 .. right - c - n - 1 : new[c + n + i] = old[c + i]
        /\ \A k \in c .. c + n - 1 : new[k] = Cell(UNICODE_SPACE, attr)
        /\ \A k \in 0 .. c - 1 : new[k] = old[k]

\* C3: for every count n with 0 <= n < (right edge - cursor column), after
\* InsertCharacter(n) the cell at column c+n+i holds what the cell at c+i
\* held, the n cells from the cursor are blank with the current attribute,
\* and the cells left of the cursor are unchanged.
C3_InsertShiftsRight ==
    [][(/\ last'.op = "InsertCharacter"
        /\ last'.a < DistanceToRight(cursor, mutableViewport))
       => InsertShifted(buffer[cursor.Y], buffer'[cursor.Y], cursor,
                        mutableViewport, currentAttributes, last'.a)]_vars

\* C3 witness: InsertCharacter(0) after InsertCharacter(1) at the same
\* cursor: the blank the first call inserted is at the cursor, the cell
\* written first at the cursor is one column right of it, and the second
\* call has left both there.
C3_Witness ==
    /\ steps = 2 /\ CanCall
    /\ last.op = "InsertCharacter" /\ last.a = 0 /\ last.ret
    /\ cursor.X + 1 < RightExclusive(mutableViewport)
    /\ buffer[cursor.Y][cursor.X] = Cell(UNICODE_SPACE, PenAttributes)
    /\ buffer[cursor.Y][cursor.X + 1] = TextCell(cursor.Y, cursor.X)

\* the call C4 is about: DeleteCharacter(2) on a row of 5 cells with the
\* cursor before the third
IsDeleteTwoOfFive(lastCall, cursorPos, viewport) ==
    /\ lastCall.op = "DeleteCharacter" /\ lastCall.a = 2 /\ lastCall.ret
    /\ Left(viewport) = 0 /\ RightExclusive(viewport) = 5
    /\ cursorPos.X = 2

\* C4 (as stated): DeleteCharacter(2) on [a,b,c,d,e] with the cursor
\* before c yields [a,b,d,e,?], d and e keeping their attributes.
C4_DeleteTwoYieldsABDE ==
    [][IsDeleteTwoOfFive(last', cursor, mutableViewport)
       => LET old == buffer[cursor.Y]
              new == buffer'[cursor.Y]
          IN  /\ new[0] = old[0] /\ new[1] = old[1]
              /\ new[2] = old[3] /\ new[3] = old[4]]_vars

\* C4 (amended): DeleteCharacter(2) on [a,b,c,d,e] with the cursor before
\* c yields [a,b,e,d,e]: e is copied to the cursor with its attributes,
\* and the last two cells keep d and e.
C4_DeleteTwoYieldsABEDE ==
    [][IsDeleteTwoOfFive(last', cursor, mutableViewport)
       => LET old == buffer[cursor.Y]
              new == buffer'[cursor.Y]
          IN  /\ new[0] = old[0] /\ new[1] = old[1]
              /\ new[2] = old[4]
              /\ new[3] = old[3] /\ new[4] = old[4]]_vars

\* C4 witness: the row [a,b,c,d,e] after DeleteCharacter(2) at column 2.
C4_Witness ==
    /\ IsDeleteTwoOfFive(last, cursor, mutableViewport)
    /\ BufWidth(buffer) = 5
    /\ cursor.Y = 0
    /\ [c \in 0 .. 4 |-> buffer[0][c].ch]
         = [c \in 0 .. 4 |-> FirstLetter + <<0, 1, 4, 3, 4>>[c + 1]]
    /\ buffer[0][2].attr = TextCell(0, 4).attr

\* C5: for every count n with 0 <= n < (right edge - cursor column), after
\* DeleteCharacter(n) the cell at column c+i, for 0 <= i < right - c - n,
\* holds what the cell at c+n+i held; the cells left of the cursor and the
\* last n cells of the line keep what they held.
C5_DeleteShiftsLeft ==
    [][(/\ last'.op = "DeleteCharacter"
        /\ last'.a < DistanceToRight(cursor, mutableViewport))
       => LET old == buffer[cursor.Y]
              new == buffer'[cursor.Y]
              c == cursor.X
              n == last'.a
              right == RightExclusive(mutableViewport)
          IN  /\ last'.ret
              /\ \A i \in 0 .. right - c - n - 1 : new[c + i] = old[c + n + i]
              /\ \A k \in 0 .. c - 1 : new[k] = old[k]
              /\ \A k \in right - n .. right - 1 : new[k] = old[k]]_vars

\* C5 witness: a DeleteCharacter(n), n >= 1, has moved a written cell with
\* its attribute n columns left to the cursor.
C5_Witness ==
    /\ last.op = "DeleteCharacter" /\ last.ret /\ last.a >= 1
    /\ last.a < DistanceToRight(cursor, mutableViewport)
    /\ buffer[cursor.Y][cursor.X] = TextCell(cursor.Y, cursor.X + last.a)

\* The oracle of C6: the source run is first copied to a temporary row,
\* which is then written to the target run
OracleCopy(buf, source, target) ==
    LET y == Top(source)
        temporary == [i \in 0 .. Width(source) - 1 |-> buf[y][Left(source) + i]]
    IN  [buf EXCEPT ![y] =
            [c \in DOMAIN buf[y] |->
                IF c >= Left(target) /\ c < RightExclusive(target)
                THEN temporary[c - Left(target)] ELSE buf[y][c]]]

Overlap(source, target) ==
    /\ Left(source) < RightExclusive(target)
    /\ Left(target) < RightExclusive(source)

\* C6: whenever the source and target runs of InsertCharacter or
\* DeleteCharacter overlap, also in a repeated call, the row the in-place
\* walk produces is the row the oracle produces: no source cell is
\* overwritten before it is read.
C6_WalkEqualsOracle ==
    [][LET source == IF last'.op = "DeleteCharacter"
                     THEN DeleteSource(cursor, mutableViewport, last'.a)
                     ELSE FromDimensions(cursor, DistanceToRight(cursor, mutableViewport), 1)
           target == IF last'.op = "DeleteCharacter"
                     THEN FromDimensions(cursor, Width(source), 1)
                     ELSE InsertTarget(cursor, source, last'.a)
       IN  (/\ last'.op \in {"InsertCharacter", "DeleteCharacter"}
            /\ last'.ret
            /\ Overlap(source, target))
           => buffer' = IF last'.op = "DeleteCharacter"
                        THEN OracleCopy(buffer, source, target)
                        ELSE InsertFill(OracleCopy(buffer, source, target),
                                        currentAttributes, last'.a, cursor)]_vars

\* C6 witness: a second InsertCharacter(1) at the same cursor: the written
\* cell first at the cursor is now two columns right of it, after two
\* inserted blanks.
C6_Witness ==
    /\ steps = 2
    /\ last.op = "InsertCharacter" /\ last.a = 1 /\ last.ret
    /\ cursor.X + 2 < RightExclusive(mutableViewport)
    /\ buffer[cursor.Y][cursor.X] = Cell(UNICODE_SPACE, PenAttributes)
    /\ buffer[cursor.Y][cursor.X + 1] = Cell(UNICODE_SPACE, PenAttributes)
    /\ buffer[cursor.Y][cursor.X + 2] = TextCell(cursor.Y, cursor.X)

\* C7: EraseInDisplay(All) called twice in succession is a no-op the
\* second time: the second call does not move the viewport, does not
\* increment the circular buffer and leaves the cursor where it was.
C7_SecondEraseAllIsNoOp ==
    [][(/\ last.op = "EraseInDisplay" /\ last.a = "All" /\ last.ret
        /\ CanCall
        /\ last'.op = "EraseInDisplay" /\ last'.a = "All")
       => (/\ mutableViewport' = mutableViewport
           /\ last'.increments = 0
           /\ cursor' = cursor
           /\ pc' = Idle)]_vars

\* C7 witness: a second EraseInDisplay(All) has returned without moving
\* the viewport or sending an event: the first has incremented the
\* circular buffer (the text of row 1 is in row 0, the last row is new),
\* left the viewport, now blank, below row 0 and kept the cursor in the
\* viewport's first row (a line feed that increments the circular buffer
\* leaves the cursor in the last).
C7_Witness ==
    /\ steps = 2 /\ CanCall
    /\ cursor.Y = Top(mutableViewport)
    /\ last.op = "EraseInDisplay" /\ last.a = "All" /\ last.ret /\ ~last.b
    /\ last.increments = 0 /\ last.events = <<>>
    /\ Top(mutableViewport) > 0
    /\ buffer[0] = TextRow(1)
    /\ buffer[BufferHeight - 1] = ResetRow(BufferWidth, PenAttributes)
    /\ \A r \in Top(mutableViewport) .. BottomInclusive(mutableViewport) :
          IsBlankRow(buffer[r])

C9_ScrollbackResetsOffsetAndTop ==
    (last.op = "EraseInDisplay" /\ last.a = "Scrollback" /\ last.ret)
        => /\ scrollOffset = 0
           /\ Top(mutableViewport) = 0
           /\ BottomExclusive(mutableViewport) = ViewportHeight

\* C9 witness: the call started with the viewport below row 0 and a scroll
\* offset that was not 0.
C9_Witness ==
    /\ pc.at = "idle"
    /\ last.op = "EraseInDisplay" /\ last.a = "Scrollback" /\ last.ret
    /\ last.from.top > 0 /\ last.from.offset > 0
    /\ scrollOffset = 0

\* C10: across any EraseInDisplay call (All, Scrollback or an invalid
\* mode) the viewport's width, height, left and right edges do not change.
C10_EraseInDisplayKeepsViewportSize ==
    [][last'.op = "EraseInDisplay"
       => /\ Width(mutableViewport') = Width(mutableViewport)
          /\ Height(mutableViewport') = Height(mutableViewport)
          /\ Left(mutableViewport') = Left(mutableViewport)
          /\ RightExclusive(mutableViewport') = RightExclusive(mutableViewport)]_vars

\* C10 witness: an EraseInDisplay has moved the viewport's top.
C10_Witness ==
    /\ pc.at = "idle"
    /\ last.op = "EraseInDisplay" /\ last.b
    /\ Top(mutableViewport) # last.from.top
    /\ Width(mutableViewport) = BufferWidth
    /\ Height(mutableViewport) = ViewportHeight

\* C11: EraseInLine with a mode other than FromBeginning, ToEnd or All, and
\* EraseInDisplay with a mode other than All or Scrollback, return failure
\* and leave the whole state unchanged: buffer cells (and with them the
\* rotation of the circular buffer), cursor, viewport and scroll offset
\* are as before, and no scroll notification fires.
C11_InvalidModeChangesNothing ==
    [][(\/ (last'.op = "EraseInLine"
            /\ last'.a \notin {"FromBeginning", "ToEnd", "All"})
        \/ (last'.op = "EraseInDisplay" /\ last'.a \notin {"All", "Scrollback"}))
       => (/\ ~last'.ret
           /\ UNCHANGED <<screen, currentAttributes, session, pc>>
           /\ last'.increments = 0
           /\ last'.events = <<>>)]_vars

\* C11 witness: EraseInLine(Scrollback) has failed on a written row away
\* from the buffer's top, after another call.
C11_Witness ==
    /\ steps = 2
    /\ last.op = "EraseInLine" /\ last.a = "Scrollback" /\ ~last.ret
    /\ cursor.Y > 0
    /\ buffer[cursor.Y] = TextRow(cursor.Y)

\* the push a pop undoes: the call before position i of the history that
\* is a push not undone by a pop between it and i; 0 when there is none
RECURSIVE MatchingPush(_, _, _)
MatchingPush(history, i, depth) ==
    IF i = 0 THEN 0
    ELSE IF history[i].op = "PopGraphicsRendition"
    THEN MatchingPush(history, i - 1, depth + 1)
    ELSE IF history[i].op = "PushGraphicsRendition"
    THEN (IF depth = 0 THEN i ELSE MatchingPush(history, i - 1, depth - 1))
    ELSE MatchingPush(history, i - 1, depth)

\* C12: after any sequence of PushGraphicsRendition, PopGraphicsRendition
\* and SetTextAttributes calls, a pop that matches a push made with the
\* empty (all fields) selector makes current exactly the attributes that
\* were current at that push; nested pushes are matched last in, first out.
C12_PopRestoresMatchingPush ==
    LET n == Len(sgrHistory)
        m == MatchingPush(sgrHistory, n - 1, 0)
    IN  (/\ n > 0
         /\ sgrHistory[n].op = "PopGraphicsRendition"
         /\ m > 0
         /\ sgrHistory[m].options = {})
        => currentAttributes = sgrHistory[m].attributes

\* C12 witness: push, set, push, pop, pop: the second pop has brought back
\* the attributes of the first push, which differ from those of the
\* second push and from those current before the pop.
C12_Witness ==
    /\ Len(sgrHistory) = 5
    /\ [i \in 1 .. 5 |-> sgrHistory[i].op]
         = <<"PushGraphicsRendition", "SetTextAttributes", "PushGraphicsRendition",
             "PopGraphicsRendition", "PopGraphicsRendition">>
    /\ sgrHistory[1].options = {}
    /\ sgrHistory[3].attributes # sgrHistory[1].attributes
    /\ sgrHistory[5].attributes # sgrHistory[1].attributes
    /\ currentAttributes = sgrHistory[1].attributes
    /\ sgrStack = <<>>

\* C13: PopGraphicsRendition on an empty attribute stack (initially, or
\* after every push has been popped) does not fail and leaves the current
\* text attributes and the stack unchanged.
C13_PopOnEmptyChangesNothing ==
    LET n == Len(sgrHistory)
    IN  (/\ n > 0
         /\ sgrHistory[n].op = "PopGraphicsRendition"
         /\ MatchingPush(sgrHistory, n - 1, 0) = 0)
        => (/\ last.ret
            /\ currentAttributes = sgrHistory[n].attributes
            /\ sgrStack = <<>>)

\* C13 witness: set, push, set, pop, pop: the second pop found the stack
\* empty again and left the attributes the first pop restored.
C13_Witness ==
    /\ Len(sgrHistory) = 5
    /\ [i \in 1 .. 5 |-> sgrHistory[i].op]
         = <<"SetTextAttributes", "PushGraphicsRendition", "SetTextAttributes",
             "PopGraphicsRendition", "PopGraphicsRendition">>
    /\ sgrHistory[2].options = {}
    /\ sgrHistory[2].attributes # TextAttribute(0, 0)
    /\ sgrHistory[4].attributes # sgrHistory[2].attributes
    /\ currentAttributes = sgrHistory[2].attributes
    /\ sgrStack = <<>>

\* C14: for every prior taskbar (state, progress) and every call
\* SetTaskbarProgress(s, p): the state becomes s; the progress becomes 0 if
\* s is Clear, p if s is Set, stays as it was if s is Indeterminate, and
\* for s Error or Paused becomes p if p # 0, the fixed minimum if p = 0
\* and the prior progress was 0, and stays as it was if p = 0 and the
\* prior progress was not 0.
C14_TaskbarTransitions ==
    [][last'.op = "SetTaskbarProgress"
       => LET s == last'.a
              p == last'.b
          IN  /\ taskbarState' = s
              /\ s = "Clear" => taskbarProgress' = 0
              /\ s = "Set" => taskbarProgress' = p
              /\ s = "Indeterminate" => taskbarProgress' = taskbarProgress
              /\ (s \in {"Error", "Paused"} /\ p # 0) => taskbarProgress' = p
              /\ (s \in {"Error", "Paused"} /\ p = 0 /\ taskbarProgress = 0)
                    => taskbarProgress' = TaskbarMinProgress
              /\ (s \in {"Error", "Paused"} /\ p = 0 /\ taskbarProgress # 0)
                    => taskbarProgress' = taskbarProgress]_vars

\* C14 witness: Paused(0) on a taskbar that was in state Set with
\* progress 42: the state is Paused and the progress still 42.
C14_Witness ==
    /\ last.op = "SetTaskbarProgress"
    /\ last.a = "Paused" /\ last.b = 0
    /\ last.from = [state |-> "Set", progress |-> 42]
    /\ taskbarState = "Paused"
    /\ taskbarProgress = 42

\* the last row of the viewport that holds a character other than a
\* space; the viewport's top row when it holds none
LastNonBlankRow(buf, viewport) ==
    LET rows == {r \in Top(viewport) .. BottomInclusive(viewport) : ~IsBlankRow(buf[r])}
    IN  IF rows = {} THEN Top(viewport)
        ELSE CHOOSE r \in rows : \A q \in rows : q <= r

\* C15: after every successful EraseInDisplay(All) that moves the viewport
\* the new viewport lies inside the buffer (top >= 0, top + height <= rows
\* of the buffer): the circular buffer is incremented exactly
\* max(0, lastNonBlankRow + 1 + height - rows) times, and the new top is
\* lastNonBlankRow + 1 less that number.
C15_EraseAllViewportFitsBuffer ==
    [][(CanCall /\ last'.op = "EraseInDisplay" /\ last'.a = "All" /\ last'.ret
        /\ last'.b)
       => LET lastNonBlankRow == LastNonBlankRow(buffer, mutableViewport)
              height == Height(mutableViewport)
              rows == BufHeight(buffer)
              expected == Max(0, lastNonBlankRow + 1 + height - rows)
          IN  /\ Top(mutableViewport') >= 0
              /\ Top(mutableViewport') + Height(mutableViewport') <= BufHeight(buffer')
              /\ last'.increments = expected
              /\ \A r \in 0 .. rows - expected - 1 : buffer'[r] = buffer[r + expected]
              /\ Top(mutableViewport') = lastNonBlankRow + 1 - expected]_vars

\* C15 witness: the viewport was at row 0 with text on its last row; the
\* buffer was incremented and the viewport now ends with the buffer.
C15_Witness ==
    /\ pc.at = "idle"
    /\ last.op = "EraseInDisplay" /\ last.a = "All" /\ last.ret /\ last.b
    /\ last.from.top = 0
    /\ last.increments >= 1
    /\ BottomExclusive(mutableViewport) = BufHeight(buffer)
    /\ buffer[BufHeight(buffer) - 1] = ResetRow(BufferWidth, PenAttributes)

\* the positions of the event e in the events of a call
EventPositions(events, e) == {i \in DOMAIN events : events[i] = e}

\* C16: in every successful EraseInDisplay(All) or (Scrollback) that
\* relocates the viewport, every increment of the circular buffer, every
\* rotation and reset of rows and the replacement of the viewport come
\* before the scroll notification and before the cursor is restored.
\* In the model: while the handler of the scroll event runs, every
\* increment, rotation and reset and the replacement of the viewport are
\* done and the cursor is not yet restored; the step that follows restores
\* the cursor and changes neither buffer, viewport nor scroll offset.
C16_RelocationBeforeNotifyAndCursor ==
    /\ [](LET relocation == {"IncrementCircularBuffer", "ScrollRows", "Reset",
                             "SetViewport"}
              after == {"NotifyScrollEvent", "SetCursorPosition"}
              restored == IF pc.at = "idle" THEN 1 ELSE 0
          IN  (last.op = "EraseInDisplay" /\ last.ret /\ last.b)
                => /\ \A e \in {"SetViewport", "NotifyScrollEvent"} :
                         Cardinality(EventPositions(last.events, e)) = 1
                   /\ Cardinality(EventPositions(last.events, "SetCursorPosition"))
                         = restored
                   /\ Cardinality(EventPositions(last.events,
                                                 "IncrementCircularBuffer"))
                         = last.increments
                   /\ \A i, j \in DOMAIN last.events :
                         (last.events[i] \in relocation /\ last.events[j] \in after)
                            => i < j
                   /\ pc.at = "idle" => IsInBounds(mutableViewport, cursor))
    /\ [][InScrollHandler("EraseInDisplay")
            => (/\ UNCHANGED <<buffer, mutableViewport, scrollOffset>>
                /\ last.events[Len(last.events)] = "NotifyScrollEvent")]_vars

\* C16 witness: an EraseInDisplay(All) that incremented the circular
\* buffer before it replaced the viewport.
C16_Witness ==
    /\ pc.at = "idle"
    /\ last.op = "EraseInDisplay" /\ last.a = "All" /\ last.b
    /\ last.increments >= 1
    /\ Top(mutableViewport) # last.from.top
    /\ Len(last.events) = last.increments + 3

\* C17: for a cursor inside the viewport before the call, every successful
\* EraseInDisplay(All) or (Scrollback) leaves the position of the cursor
\* relative to the viewport as it was: GetCursorPosition() returns the
\* same (x, y) after the call as before it, although the viewport moved.
\* last.from.cursor is what GetCursorPosition() returned when the call
\* was made; the call has returned when none is in progress.
C17_EraseInDisplayKeepsRelativeCursor ==
    (/\ last.op = "EraseInDisplay" /\ last.a \in {"All", "Scrollback"}
     /\ last.ret
     /\ pc.at = "idle"
     /\ last.from.cursor.X \in 0 .. Width(mutableViewport) - 1
     /\ last.from.cursor.Y \in 0 .. Height(mutableViewport) - 1)
        => GetCursorPosition = last.from.cursor

\* C17 witness: the viewport has moved up and the cursor with it, on the
\* last row and away from the first column of the viewport.
C17_Witness ==
    /\ pc.at = "idle"
    /\ last.op = "EraseInDisplay" /\ last.a = "Scrollback" /\ last.b
    /\ last.from.top > Top(mutableViewport)
    /\ GetCursorPosition = [X |-> 2, Y |-> ViewportHeight - 1]
    /\ cursor.Y = ViewportHeight - 1

\* the cells of new that differ from old are cells of row y in the
\* columns [from, to)
ChangedOnlyWithin(old, new, y, from, to) ==
    \A r \in DOMAIN old : \A k \in DOMAIN old[r] :
        (r # y \/ k < from \/ k >= to) => new[r][k] = old[r][k]

\* C18: for every count, also one equal to or larger than the number of
\* cells between the cursor and the viewport's right edge,
\* InsertCharacter(count) and DeleteCharacter(count) write only cells of
\* the cursor's row between the cursor's column and the viewport's right
\* edge: no cell outside the viewport's columns or on another row is
\* written.  Stated for the counts of at least 1; a count of 0 is the
\* case of C3.
C18_InsertDeleteStayInCursorRow ==
    [][(last'.op \in {"InsertCharacter", "DeleteCharacter"} /\ last'.a >= 1)
       => ChangedOnlyWithin(buffer, buffer', cursor.Y, cursor.X,
                            RightExclusive(mutableViewport))]_vars

\* C19: for every numChars >= 0, 0 and values larger than the row
\* included, EraseCharacters(numChars) sets exactly the
\* min(numChars, right edge - cursor column) cells from the cursor on to
\* blank with the current attribute and changes no other cell: it never
\* writes past the viewport's right edge or into the next line, and it
\* does not move the cursor.
C19_EraseCharactersExactCells ==
    [][last'.op = "EraseCharacters"
       => LET n == Min(last'.a, DistanceToRight(cursor, mutableViewport))
          IN  /\ \A k \in cursor.X .. cursor.X + n - 1 :
                    buffer'[cursor.Y][k] = Cell(UNICODE_SPACE, currentAttributes)
              /\ ChangedOnlyWithin(buffer, buffer', cursor.Y, cursor.X, cursor.X + n)
              /\ cursor' = cursor]_vars

\* C20: for every cursor position and every viewport, also one whose left
\* edge is not column 0, EraseInLine blanks exactly these cells of the
\* cursor's row with the current attribute and no others: FromBeginning
\* the cells from the line's left edge through and including the cursor;
\* ToEnd the cells from the cursor up to, not including, the viewport's
\* right edge; All every cell of the line within the viewport; the cursor
\* is not moved and the row's wrap flag is not set.  The cells left of
\* the viewport are left out of the statement for FromBeginning, where
\* the line's left edge may be read as column 0 or as the viewport's.
C20_EraseInLineExactCells ==
    [][(last'.op = "EraseInLine" /\ last'.a \in {"FromBeginning", "ToEnd", "All"})
       => LET left == Left(mutableViewport)
              right == RightExclusive(mutableViewport)
              from == IF last'.a = "ToEnd" THEN cursor.X ELSE left
              to == IF last'.a = "FromBeginning" THEN cursor.X + 1 ELSE right
              outer == IF last'.a = "FromBeginning" THEN 0 ELSE from
          IN  /\ last'.ret
              /\ \A k \in from .. to - 1 :
                    buffer'[cursor.Y][k] = Cell(UNICODE_SPACE, currentAttributes)
              /\ ChangedOnlyWithin(buffer, buffer', cursor.Y, outer, to)
              /\ cursor' = cursor
              /\ last'.b = FALSE]_vars

\* C21: in every state reachable from the initial taskbar state (Clear,
\* progress 0) by any sequence of SetTaskbarProgress calls, the state Clear
\* implies progress = 0, and the state Error or Paused implies
\* progress # 0.
C21_TaskbarStateAgreesWithProgress ==
    /\ taskbarState = "Clear" => taskbarProgress = 0
    /\ taskbarState \in {"Error", "Paused"} => taskbarProgress # 0

\* C21 witness: after Set(0), Error(0) found the progress at 0 and gave it
\* the minimum.
C21_Witness ==
    /\ last.op = "SetTaskbarProgress"
    /\ last.a = "Error" /\ last.b = 0
    /\ last.from = [state |-> "Set", progress |-> 0]
    /\ taskbarState = "Error"
    /\ taskbarProgress = TaskbarMinProgress

====
